---- MODULE Spec2Model ----
(***************************************************************************)
(* A model of the FASTQ report pipeline of fastq_agents:                   *)
(*   models/fastq_data.py  FASTQRead, FASTQMetrics, FASTQData              *)
(*   models/reports.py     QualityFlags, RecommendationItem, AnalysisReport *)
(*   agents/base.py        BaseAgent.query_llm                             *)
(*   agents/reporter.py    FASTQReportAgent                                *)
(*                                                                         *)
(* Python floats are modelled as exact rationals [num, den] in lowest      *)
(* terms; an Optional value is a sequence of length 0 (None) or 1; a       *)
(* formatted string is a record naming the template and the values that    *)
(* were formatted into it.                                                 *)
(***************************************************************************)
EXTENDS Integers, Sequences, FiniteSets, TLC

(***************************************************************************)
(* Exact rational arithmetic (the values Python holds in floats).          *)
(***************************************************************************)
RECURSIVE GCD(_, _)
GCD(a, b) == IF b = 0 THEN a ELSE GCD(b, a % b)

Abs(x) == IF x < 0 THEN -x ELSE x

\* n/d in lowest terms, d > 0
Rat(n, d) ==
    LET g == GCD(Abs(n), Abs(d))
        s == IF d < 0 THEN -1 ELSE 1
    IN  [num |-> (s * n) \div g, den |-> (s * d) \div g]

FromInt(n) == [num |-> n, den |-> 1]

RAdd(a, b) == Rat(a.num * b.den + b.num * a.den, a.den * b.den)

RDivInt(a, n) == Rat(a.num, a.den * n)

RMulInt(a, n) == Rat(a.num * n, a.den)

RLt(a, b) == a.num * b.den < b.num * a.den

RLe(a, b) == a.num * b.den <= b.num * a.den

RGe(a, b) == RLe(b, a)

RGt(a, b) == RLt(b, a)

\* a number given in thousandths: Milli(34999) is 34.999
Milli(n) == Rat(n, 1000)

\* int(x) of a non-negative float
Trunc(a) == a.num \div a.den

\* the value a "{x:.1f}" format shows, in tenths (round half to even)
Fmt1(a) ==
    LET t  == (a.num * 10) \div a.den
        r2 == 2 * ((a.num * 10) % a.den)
    IN  IF r2 > a.den \/ (r2 = a.den /\ t % 2 = 1) THEN t + 1 ELSE t

\* the value a "{x:.2f}" format shows, in hundredths
Fmt2(a) ==
    LET t  == (a.num * 100) \div a.den
        r2 == 2 * ((a.num * 100) % a.den)
    IN  IF r2 > a.den \/ (r2 = a.den /\ t % 2 = 1) THEN t + 1 ELSE t

(***************************************************************************)
(* Sequence helpers (sum, min, max, statistics.mean).                      *)
(***************************************************************************)
Rep(x, n) == [i \in 1..n |-> x]

\* sum(s[lo..hi]), halving the range
RECURSIVE SumRange(_, _, _)
SumRange(s, lo, hi) ==
    IF lo > hi THEN 0
    ELSE IF lo = hi THEN s[lo]
    ELSE SumRange(s, lo, (lo + hi) \div 2) + SumRange(s, (lo + hi) \div 2 + 1, hi)

sum(s) == SumRange(s, 1, Len(s))

RECURSIVE RSumRange(_, _, _)
RSumRange(s, lo, hi) ==
    IF lo > hi THEN FromInt(0)
    ELSE IF lo = hi THEN s[lo]
    ELSE RAdd(RSumRange(s, lo, (lo + hi) \div 2), RSumRange(s, (lo + hi) \div 2 + 1, hi))

\* statistics.mean of a non-empty list of ints
mean_int(s) == Rat(sum(s), Len(s))

\* statistics.mean of a non-empty list of floats
mean(s) == RDivInt(RSumRange(s, 1, Len(s)), Len(s))

min(s) == CHOOSE x \in {s[i] : i \in 1..Len(s)} : \A j \in 1..Len(s) : x <= s[j]

max(s) == CHOOSE x \in {s[i] : i \in 1..Len(s)} : \A j \in 1..Len(s) : x >= s[j]

(***************************************************************************)
(* models/fastq_data.py: FASTQRead                                         *)
(***************************************************************************)
\* str.upper() on one base
upper(c) ==
    CASE c = "a" -> "A"
      [] c = "c" -> "C"
      [] c = "g" -> "G"
      [] c = "t" -> "T"
      [] c = "n" -> "N"
      [] OTHER -> c

\* str.count(ch) on sequence.upper()
count_upper(sequence, ch) == Len(SelectSeq(sequence, LAMBDA c : upper(c) = ch))

length(read) == Len(read.sequence)

read_average_quality(read) ==
    IF read.quality_scores # <<>> THEN mean_int(read.quality_scores) ELSE FromInt(0)

read_gc_content(read) ==
    IF read.sequence = <<>>
    THEN FromInt(0)
    ELSE LET gc_count == count_upper(read.sequence, "G") + count_upper(read.sequence, "C")
         IN  RMulInt(Rat(gc_count, Len(read.sequence)), 100)

(***************************************************************************)
(* models/fastq_data.py: FASTQMetrics, FASTQData.calculate_metrics         *)
(* A distribution (Dict[str, int]) is a function from bucket labels to     *)
(* counts; the label "{a}-{b}" is the pair <<a, b>>.                       *)
(***************************************************************************)
FASTQMetrics(tr, tb, arl, mn, mx, aq, gc, qd, ld) ==
    [total_reads |-> tr, total_bases |-> tb, average_read_length |-> arl,
     min_read_length |-> mn, max_read_length |-> mx, average_quality |-> aq,
     gc_content |-> gc, quality_distribution |-> qd, length_distribution |-> ld]

EmptyDict == [k \in {} |-> 0]

\* variant: the upper end of the label one too far, "{b}-{b + w}"
bin_key_overlapping(v, w) == <<(v \div w) * w, (v \div w) * w + w>>

\* f"{(v // w) * w}-{(v // w) * w + w - 1}"
bin_key(v, w) == <<(v \div w) * w, (v \div w) * w + (w - 1)>>

\* variant: "bins[key] = 1", a bucket marked instead of counted
bin_values_marked(values, w) ==
    [k \in {bin_key(values[i], w) : i \in 1..Len(values)} |-> 1]

\* the bins a loop of "bins[key] = bins.get(key, 0) + 1" over values leaves:
\* a key for every bucket a value falls in, counting the values that fall in it
bin_values(values, w) ==
    [k \in {bin_key(values[i], w) : i \in 1..Len(values)} |->
        Cardinality({i \in 1..Len(values) : bin_key(values[i], w) = k})]

\* the same loop nested in the loop over the reads: quality_bins
quality_bins(reads) ==
    LET own == [i \in 1..Len(reads) |-> bin_values(reads[i].quality_scores, 5)]
    IN  [k \in UNION {DOMAIN own[i] : i \in 1..Len(reads)} |->
            sum([i \in 1..Len(reads) |-> IF k \in DOMAIN own[i] THEN own[i][k] ELSE 0])]

\* the mean over all the scores of all the reads, 0 when there is none
pooled_quality(reads) ==
    LET totals == [i \in 1..Len(reads) |-> sum(reads[i].quality_scores)]
        counts == [i \in 1..Len(reads) |-> Len(reads[i].quality_scores)]
    IN  IF sum(counts) = 0 THEN FromInt(0) ELSE Rat(sum(totals), sum(counts))

\* the G and C share of all the bases of all the reads, in percent
pooled_gc_content(reads) ==
    LET gc_counts == [i \in 1..Len(reads) |->
                        count_upper(reads[i].sequence, "G") + count_upper(reads[i].sequence, "C")]
        lengths   == [i \in 1..Len(reads) |-> length(reads[i])]
    IN  IF sum(lengths) = 0 THEN FromInt(0) ELSE Rat(100 * sum(gc_counts), sum(lengths))

\* variant: quality and GC content averaged over the pooled bases
MetricsOfReads_pooled(reads) ==
    LET lengths == [i \in 1..Len(reads) |-> length(reads[i])]
    IN  FASTQMetrics(Len(reads), sum(lengths), mean_int(lengths), min(lengths),
                     max(lengths), pooled_quality(reads), pooled_gc_content(reads),
                     quality_bins(reads), bin_values(lengths, 50))

MetricsOfReads(reads) ==
    LET lengths   == [i \in 1..Len(reads) |-> length(reads[i])]
        qualities == [i \in 1..Len(reads) |-> read_average_quality(reads[i])]
        gcs       == [i \in 1..Len(reads) |-> read_gc_content(reads[i])]
    IN  FASTQMetrics(Len(reads), sum(lengths), mean_int(lengths), min(lengths),
                     max(lengths), mean(qualities), mean(gcs),
                     quality_bins(reads), bin_values(lengths, 50))

\* variant: the empty case returning distributions with a zero-count first bucket
calculate_metrics_zero_buckets(data) ==
    IF data.reads = <<>>
    THEN FASTQMetrics(0, 0, FromInt(0), 0, 0, FromInt(0), FromInt(0),
                      [k \in {<<0, 4>>} |-> 0], [k \in {<<0, 49>>} |-> 0])
    ELSE MetricsOfReads(data.reads)

\* the value calculate_metrics returns
calculate_metrics(data) ==
    IF data.reads = <<>>
    THEN FASTQMetrics(0, 0, FromInt(0), 0, 0, FromInt(0), FromInt(0), EmptyDict, EmptyDict)
    ELSE MetricsOfReads(data.reads)

\* variant: self.metrics stored before the two distributions are filled in
after_calculate_metrics_without_bins(data) ==
    IF data.reads = <<>>
    THEN data
    ELSE [data EXCEPT !.metrics =
            <<[calculate_metrics(data) EXCEPT !.quality_distribution = EmptyDict,
                                              !.length_distribution = EmptyDict]>>]

\* the FASTQData after calculate_metrics: self.metrics is set only when there are reads
after_calculate_metrics(data) ==
    IF data.reads = <<>> THEN data ELSE [data EXCEPT !.metrics = <<calculate_metrics(data)>>]

(***************************************************************************)
(* models/reports.py                                                       *)
(***************************************************************************)
ReportFormat == {"html", "pdf", "json", "markdown"}

QualityAssessment == {"excellent", "good", "fair", "poor", "failed"}

\* QualityFlags(): every flag defaults to False
QualityFlags ==
    [low_quality_reads |-> FALSE, uneven_read_lengths |-> FALSE,
     poor_gc_content |-> FALSE, adapter_contamination |-> FALSE,
     overrepresented_sequences |-> FALSE, low_complexity_regions |-> FALSE]

\* a formatted string: the template, an embedded label, the embedded numbers
Text(id, desc, args) == [id |-> id, desc |-> desc, args |-> args]

NoText == Text("", "", <<>>)

\* AnalysisReport(report_id, file_path, file_size_mb, metrics, quality_assessment)
\* with the defaults of the other fields
AnalysisReport(file_path, metrics, quality_assessment) ==
    [file_path |-> file_path, metrics |-> metrics,
     quality_assessment |-> quality_assessment, quality_flags |-> QualityFlags,
     recommendations |-> <<>>, ai_summary |-> NoText, ai_insights |-> <<>>,
     chart_data |-> <<>>, sections |-> <<>>]

get_high_priority_recommendations(report) ==
    SelectSeq(report.recommendations, LAMBDA rec : rec.priority = "high")

(***************************************************************************)
(* agents/reporter.py: thresholds, classification, flags                   *)
(***************************************************************************)
GC_IDEAL_MIN == 40

GC_IDEAL_MAX == 60

GC_ACCEPTABLE_MIN == 35

GC_ACCEPTABLE_MAX == 65

\* variant: the acceptable band taken exclusive of its ends
assess_gc_content_exclusive(gc_value) ==
    IF RLe(FromInt(GC_IDEAL_MIN), gc_value) /\ RLe(gc_value, FromInt(GC_IDEAL_MAX))
    THEN <<"ideal", FALSE>>
    ELSE IF RLt(FromInt(GC_ACCEPTABLE_MIN), gc_value)
            /\ RLt(gc_value, FromInt(GC_ACCEPTABLE_MAX))
         THEN <<"acceptable", FALSE>>
         ELSE <<"unusual", TRUE>>

\* (status, should_flag)
assess_gc_content(gc_value) ==
    IF RLe(FromInt(GC_IDEAL_MIN), gc_value) /\ RLe(gc_value, FromInt(GC_IDEAL_MAX))
    THEN <<"ideal", FALSE>>
    ELSE IF RLe(FromInt(GC_ACCEPTABLE_MIN), gc_value)
            /\ RLe(gc_value, FromInt(GC_ACCEPTABLE_MAX))
         THEN <<"acceptable", FALSE>>
         ELSE <<"unusual", TRUE>>

\* variant: the thresholds taken exclusive
_assess_overall_quality_exclusive(metrics) ==
    LET avg_quality == metrics.average_quality
    IN  IF RGt(avg_quality, FromInt(35)) THEN "excellent"
        ELSE IF RGt(avg_quality, FromInt(30)) THEN "good"
        ELSE IF RGt(avg_quality, FromInt(25)) THEN "fair"
        ELSE IF RGt(avg_quality, FromInt(20)) THEN "poor"
        ELSE "failed"

_assess_overall_quality(metrics) ==
    LET avg_quality == metrics.average_quality
    IN  IF RGe(avg_quality, FromInt(35)) THEN "excellent"
        ELSE IF RGe(avg_quality, FromInt(30)) THEN "good"
        ELSE IF RGe(avg_quality, FromInt(25)) THEN "fair"
        ELSE IF RGe(avg_quality, FromInt(20)) THEN "poor"
        ELSE "failed"

\* variant: an average of exactly 25 counted as low
low_quality_check_inclusive(metrics) == RLe(metrics.average_quality, FromInt(25))

\* variant: only an average below 20 counted as low
low_quality_check_failed_only(metrics) == RLt(metrics.average_quality, FromInt(20))

\* the low-quality test of _identify_quality_flags
low_quality_check(metrics) == RLt(metrics.average_quality, FromInt(25))

\* variant: a spread of exactly 50 counted as uneven
uneven_lengths_check_inclusive(metrics) ==
    LET length_variation == metrics.max_read_length - metrics.min_read_length
    IN  length_variation >= 50

\* the read-length test of _identify_quality_flags
uneven_lengths_check(metrics) ==
    LET length_variation == metrics.max_read_length - metrics.min_read_length
    IN  length_variation > 50

\* variant: no flag raised for metrics of an empty collection
_identify_quality_flags_unless_empty(metrics) ==
    IF metrics.total_reads = 0
    THEN QualityFlags
    ELSE [QualityFlags EXCEPT
            !.low_quality_reads = low_quality_check(metrics),
            !.uneven_read_lengths = uneven_lengths_check(metrics),
            !.poor_gc_content = assess_gc_content(metrics.gc_content)[2]]

\* variant: the GC flag decided by a comparison of its own with the ideal band
_identify_quality_flags_own_bands(metrics) ==
    [QualityFlags EXCEPT
        !.low_quality_reads = low_quality_check(metrics),
        !.uneven_read_lengths = uneven_lengths_check(metrics),
        !.poor_gc_content = \/ RLt(metrics.gc_content, FromInt(GC_IDEAL_MIN))
                            \/ RGt(metrics.gc_content, FromInt(GC_IDEAL_MAX))]

_identify_quality_flags(metrics) ==
    LET flags0 == QualityFlags
        flags1 == IF low_quality_check(metrics)
                  THEN [flags0 EXCEPT !.low_quality_reads = TRUE] ELSE flags0
        flags2 == IF uneven_lengths_check(metrics)
                  THEN [flags1 EXCEPT !.uneven_read_lengths = TRUE] ELSE flags1
        should_flag == assess_gc_content(metrics.gc_content)[2]
    IN  [flags2 EXCEPT !.poor_gc_content = should_flag]

(***************************************************************************)
(* agents/reporter.py: the template narrative                              *)
(***************************************************************************)
quality_desc(quality_assessment) ==
    CASE quality_assessment = "excellent" -> "exceptional quality with minimal issues"
      [] quality_assessment = "good" -> "good quality suitable for most analyses"
      [] quality_assessment = "fair" -> "acceptable quality with some concerns"
      [] quality_assessment = "poor" -> "poor quality requiring preprocessing"
      [] quality_assessment = "failed" -> "failed quality checks, significant issues detected"
      [] OTHER -> "unknown quality"

\* the "Add recommendation insight" block: nothing when report.recommendations is empty
recommendation_insight(report) ==
    IF report.recommendations # <<>>
    THEN LET high_priority ==
                 Len(SelectSeq(report.recommendations, LAMBDA r : r.priority = "high"))
         IN  IF high_priority > 0
             THEN <<Text("high-priority preprocessing steps recommended", "",
                         <<high_priority>>)>>
             ELSE <<Text("Standard preprocessing steps recommended for optimal results",
                         "", <<>>)>>
    ELSE <<>>

\* variant: an insight only for what is wrong with the data
_generate_fast_analysis_issues_only(report) ==
    LET metrics == report.metrics
        quality_issue ==
            IF RGe(metrics.average_quality, FromInt(25))
            THEN <<>>
            ELSE <<Text("Low quality scores may require filtering or trimming", "", <<>>)>>
        gc_issue ==
            IF assess_gc_content(metrics.gc_content)[2]
            THEN <<Text("GC content outside typical range may indicate bias or contamination",
                        "", <<Fmt1(metrics.gc_content)>>)>>
            ELSE <<>>
        length_issue ==
            IF metrics.max_read_length - metrics.min_read_length <= 20
            THEN <<>>
            ELSE <<Text("High read length variation may require length filtering", "",
                        <<>>)>>
    IN  [summary |-> Text("This FASTQ dataset contains",
                          quality_desc(report.quality_assessment),
                          <<metrics.total_reads, Fmt1(metrics.average_quality),
                            Fmt1(metrics.gc_content)>>),
         insights |-> quality_issue \o gc_issue \o length_issue
                      \o recommendation_insight(report),
         suitability |-> Text("Dataset quality rated as", report.quality_assessment, <<>>)]

_generate_fast_analysis(report) ==
    LET metrics == report.metrics
        summary ==
            Text("This FASTQ dataset contains", quality_desc(report.quality_assessment),
                 <<metrics.total_reads, Fmt1(metrics.average_quality),
                   Fmt1(metrics.gc_content)>>)
        quality_insight ==
            IF RGe(metrics.average_quality, FromInt(35))
            THEN Text("Excellent base call quality indicates reliable sequencing data",
                      "", <<>>)
            ELSE IF RGe(metrics.average_quality, FromInt(25))
                 THEN Text("Good quality scores suitable for downstream analysis", "", <<>>)
                 ELSE Text("Low quality scores may require filtering or trimming", "", <<>>)
        gc_status == assess_gc_content(metrics.gc_content)[1]
        gc_insight ==
            IF gc_status = "ideal"
            THEN Text("GC content within ideal range suggests no major bias", "", <<>>)
            ELSE IF gc_status = "acceptable"
                 THEN Text("GC content is acceptable but slightly outside ideal range", "",
                           <<Fmt1(metrics.gc_content)>>)
                 ELSE Text("GC content outside typical range may indicate bias or contamination",
                           "", <<Fmt1(metrics.gc_content)>>)
        length_var == metrics.max_read_length - metrics.min_read_length
        length_insight ==
            IF length_var <= 5
            THEN Text("Consistent read lengths indicate uniform library preparation", "", <<>>)
            ELSE IF length_var <= 20
                 THEN Text("Moderate read length variation is within acceptable range", "",
                           <<>>)
                 ELSE Text("High read length variation may require length filtering", "",
                           <<>>)
    IN  [summary |-> summary,
         insights |-> <<quality_insight, gc_insight, length_insight>>
                      \o recommendation_insight(report),
         suitability |-> Text("Dataset quality rated as", report.quality_assessment, <<>>)]

(***************************************************************************)
(* agents/reporter.py: the recommendation rules                            *)
(***************************************************************************)
RecommendationItem(category, priority, action, reason, parameters) ==
    [category |-> category, priority |-> priority, action |-> action,
     reason |-> reason, parameters |-> parameters]

\* variant: min_length rounded to the nearest integer instead of truncated
quality_filtering_rule_rounding(metrics, flags) ==
    IF flags.low_quality_reads
    THEN <<RecommendationItem("Quality Filtering", "high", "Apply quality filtering",
              Text("Average quality score is below recommended threshold (>25)", "",
                   <<Fmt1(metrics.average_quality)>>),
              [min_quality |-> 20,
               min_length |-> Trunc(RAdd(Rat(metrics.average_read_length.num * 8,
                                             metrics.average_read_length.den * 10),
                                         Rat(1, 2)))])>>
    ELSE <<>>

quality_filtering_rule(metrics, flags) ==
    IF flags.low_quality_reads
    THEN <<RecommendationItem("Quality Filtering", "high", "Apply quality filtering",
              Text("Average quality score is below recommended threshold (>25)", "",
                   <<Fmt1(metrics.average_quality)>>),
              [min_quality |-> 20,
               min_length |-> Trunc(Rat(metrics.average_read_length.num * 8,
                                        metrics.average_read_length.den * 10))])>>
    ELSE <<>>

\* variant: a margin of 20 on either side of the window
length_filtering_rule_margin_20(metrics, flags) ==
    IF flags.uneven_read_lengths
    THEN <<RecommendationItem("Length Filtering", "medium", "Apply length filtering",
              Text("Read lengths vary significantly", "",
                   <<metrics.min_read_length, metrics.max_read_length>>),
              [min_length |-> metrics.min_read_length + 20,
               max_length |-> metrics.max_read_length - 20])>>
    ELSE <<>>

length_filtering_rule(metrics, flags) ==
    IF flags.uneven_read_lengths
    THEN <<RecommendationItem("Length Filtering", "medium", "Apply length filtering",
              Text("Read lengths vary significantly", "",
                   <<metrics.min_read_length, metrics.max_read_length>>),
              [min_length |-> metrics.min_read_length + 10,
               max_length |-> metrics.max_read_length - 10])>>
    ELSE <<>>

\* variant: GC content of exactly 30 or 70 taken for high priority
contamination_priority_inclusive(metrics) ==
    IF RLe(metrics.gc_content, FromInt(30)) \/ RGe(metrics.gc_content, FromInt(70))
    THEN "high"
    ELSE "medium"

contamination_priority(metrics) ==
    IF RLt(metrics.gc_content, FromInt(30)) \/ RGt(metrics.gc_content, FromInt(70))
    THEN "high"
    ELSE "medium"

contamination_check_rule(metrics, flags) ==
    IF flags.poor_gc_content
    THEN <<RecommendationItem("Contamination Check", contamination_priority(metrics),
              "Screen for contamination",
              Text("GC content is outside acceptable range", "",
                   <<Fmt1(metrics.gc_content), GC_ACCEPTABLE_MIN, GC_ACCEPTABLE_MAX,
                     GC_IDEAL_MIN, GC_IDEAL_MAX>>),
              [ideal_gc_range |-> <<GC_IDEAL_MIN, GC_IDEAL_MAX>>,
               acceptable_gc_range |-> <<GC_ACCEPTABLE_MIN, GC_ACCEPTABLE_MAX>>])>>
    ELSE <<>>

\* variant: adapter trimming offered as a low-priority step
adapter_trimming_rule_low(metrics) ==
    IF RGt(metrics.average_read_length, FromInt(50))
    THEN <<RecommendationItem("Adapter Trimming", "low", "Trim adapter sequences",
              Text("Standard preprocessing step for Illumina sequencing data", "", <<>>),
              [tool |-> "trimmomatic", adapter_file |-> "TruSeq3-PE.fa"])>>
    ELSE <<>>

adapter_trimming_rule(metrics) ==
    IF RGt(metrics.average_read_length, FromInt(50))
    THEN <<RecommendationItem("Adapter Trimming", "medium", "Trim adapter sequences",
              Text("Standard preprocessing step for Illumina sequencing data", "", <<>>),
              [tool |-> "trimmomatic", adapter_file |-> "TruSeq3-PE.fa"])>>
    ELSE <<>>

\* variant: the contamination rule evaluated before the length rule
_generate_recommendations_reordered(report) ==
    LET metrics == report.metrics
        flags   == report.quality_flags
    IN  quality_filtering_rule(metrics, flags)
        \o contamination_check_rule(metrics, flags)
        \o length_filtering_rule(metrics, flags)
        \o adapter_trimming_rule(metrics)

_generate_recommendations(report) ==
    LET metrics == report.metrics
        flags   == report.quality_flags
    IN  quality_filtering_rule(metrics, flags)
        \o length_filtering_rule(metrics, flags)
        \o contamination_check_rule(metrics, flags)
        \o adapter_trimming_rule(metrics)

(***************************************************************************)
(* agents/reporter.py: the narrative from the LLM                          *)
(* A response is [prefix, body, suffix]: an optional opening fence, the    *)
(* text between, an optional closing fence.  A body is what json.loads     *)
(* makes of it: an object with some keys, an array, or no JSON at all.     *)
(***************************************************************************)
NarrativeKeys == {"summary", "insights", "suitability"}

\* the branch of _generate_ai_analysis for fewer than 10 reads
small_dataset_analysis(report) ==
    LET m == report.metrics
        gc_status == assess_gc_content(m.gc_content)[1]
        gc_description ==
            CASE gc_status = "ideal" -> "within ideal range"
              [] gc_status = "acceptable" -> "acceptable but outside ideal range"
              [] gc_status = "unusual" -> "outside typical range"
              [] OTHER -> "unknown"
    IN  [summary |-> Text("Small dataset with", report.quality_assessment,
                          <<m.total_reads, Fmt2(m.average_quality)>>),
         insights |->
            <<Text("Dataset contains", "", <<m.total_reads, Fmt2(m.average_quality)>>),
              Text("GC content is", gc_description, <<Fmt1(m.gc_content)>>),
              IF m.max_read_length - m.min_read_length <= 10
              THEN Text("Read lengths are consistent at", "",
                        <<Fmt1(m.average_read_length)>>)
              ELSE Text("Read lengths vary from", "",
                        <<m.min_read_length, m.max_read_length>>)>>,
         suitability |-> Text("Suitable for downstream analysis based on",
                              report.quality_assessment, <<>>)]

\* strip() and the removal of the opening and closing code fences
cleaned_response(ai_response) == ai_response.body

\* the text of cleaned_response, when it is used as the summary
response_text(body) == Text("response", body.kind, <<Cardinality(body.keys)>>)

\* the values the LLM put under the keys of its JSON object
llm_value(key) ==
    CASE key = "summary" -> Text("llm summary", "", <<>>)
      [] key = "suitability" -> Text("llm suitability", "", <<>>)

llm_insights == <<Text("llm insight 1", "", <<>>), Text("llm insight 2", "", <<>>)>>

\* the except branch of _generate_ai_analysis
ai_unavailable ==
    [summary |-> Text("AI analysis unavailable", "", <<>>),
     insights |-> <<>>,
     suitability |-> Text("Manual review recommended", "", <<>>)]

\* "all(key in parsed_json for key in [...])": keys of an object, elements of an
\* array, substrings of a string
has_required_keys(body) == NarrativeKeys \subseteq body.keys

\* what _generate_ai_analysis returns is a dict: not so for a JSON array or string
\* that passes the key test and is returned as parsed
returns_dict(ai_response) ==
    LET body == cleaned_response(ai_response)
    IN  body.kind \in {"object", "text"} \/ ~has_required_keys(body)

\* the try body of _generate_ai_analysis after query_llm has returned, where it
\* returns a dict
parse_ai_response(ai_response) ==
    LET body == cleaned_response(ai_response)
    IN  IF body.kind = "object"
        THEN [summary |-> IF "summary" \in body.keys
                          THEN llm_value("summary") ELSE response_text(body),
              insights |-> IF "insights" \in body.keys THEN llm_insights ELSE <<>>,
              suitability |-> IF "suitability" \in body.keys
                              THEN llm_value("suitability")
                              ELSE Text("Review recommended", "", <<>>)]
        ELSE IF body.kind = "text"
             THEN \* json.JSONDecodeError
                  [summary |-> response_text(body),
                   insights |-> <<>>,
                   suitability |-> Text("Analysis available in summary", "", <<>>)]
             ELSE \* a JSON array or string: parsed_json.get raises AttributeError,
                  \* which the outer except catches
                  ai_unavailable

(***************************************************************************)
(* agents/reporter.py: charts, sections, saving                            *)
(***************************************************************************)
_generate_chart_data(data) ==
    LET metrics == IF data.metrics # <<>> THEN data.metrics[1] ELSE calculate_metrics(data)
    IN  [quality_distribution |-> metrics.quality_distribution,
         length_distribution |-> metrics.length_distribution,
         summary_metrics |->
            <<metrics.total_reads, metrics.total_bases, Fmt2(metrics.average_quality),
              Fmt1(metrics.gc_content), Fmt1(metrics.average_read_length)>>]

_create_report_sections(report) ==
    <<"Executive Summary", "Dataset Overview", "Quality Analysis">>
    \o (IF report.recommendations # <<>> THEN <<"Processing Recommendations">> ELSE <<>>)

\* whether _save_report has a writer for the format
supported_format(format) == format \in {"html", "json", "markdown"}

(***************************************************************************)
(* The inputs the model draws from.                                        *)
(***************************************************************************)
\* how many times process is called, one call after the other
MaxRuns == 2

\* the dataset size below which _create_analysis_report uses the template
SMALL_DATASET == 50

\* a read of the given length with gc G/C bases (upper and lower case) and the
\* first half of its scores q1, the rest q2
MkRead(len, gc, q1, q2) ==
    [identifier |-> "read",
     sequence |-> Rep("G", gc \div 2) \o Rep("c", gc - gc \div 2) \o Rep("A", len - gc),
     quality_scores |-> Rep(q1, len \div 2) \o Rep(q2, len - len \div 2)]

ReadCollections ==
    { <<>>,
      \* one read, length 40, all scores 40, GC 50%
      <<MkRead(40, 20, 40, 40)>>,
      \* average quality 22, lengths 50 and 110, GC 20%
      <<MkRead(50, 10, 22, 22), MkRead(110, 22, 22, 22)>>,
      \* reads of unequal length and quality
      <<MkRead(2, 1, 40, 40), MkRead(6, 5, 10, 12)>>,
      \* a read with no scores and a read with no bases
      <<MkRead(4, 2, 30, 31), [identifier |-> "read", sequence |-> <<>>,
                               quality_scores |-> <<>>]>>,
      \* read counts on both sides of the small-dataset threshold
      Rep(MkRead(4, 2, 30, 30), SMALL_DATASET - 1),
      Rep(MkRead(4, 2, 30, 30), SMALL_DATASET),
      Rep(MkRead(3, 0, 24, 24), SMALL_DATASET) \o <<MkRead(60, 0, 24, 24)>> }

QualitySamples ==
    {Milli(0), Milli(19999), Milli(20000), Milli(24999), Milli(25000), Milli(29999),
     Milli(30000), Milli(34999), Milli(35000), Milli(40000)}

GCSamples ==
    {Milli(0), Milli(29999), Milli(30000), Milli(34999), Milli(35000), Milli(39999),
     Milli(40000), Milli(50000), Milli(60000), Milli(60001), Milli(65000), Milli(65001),
     Milli(70000), Milli(70001), Milli(100000)}

\* (min, max, average) read lengths
LengthSamples ==
    {<<40, 40, Milli(40000)>>, <<50, 100, Milli(50000)>>, <<50, 101, Milli(50001)>>,
     <<10, 110, Milli(80000)>>, <<10, 61, Milli(30000)>>, <<60, 60, Milli(60000)>>}

\* metrics a caller has put into FASTQData.metrics
GivenMetrics(n, q, gc, l) ==
    FASTQMetrics(n, Trunc(RMulInt(l[3], n)), l[3], l[1], l[2], q, gc, EmptyDict, EmptyDict)

SuppliedMetrics ==
    {GivenMetrics(SMALL_DATASET, q, Milli(50000), <<40, 40, Milli(40000)>>) :
        q \in QualitySamples}
    \cup {GivenMetrics(SMALL_DATASET, Milli(30000), gc, <<40, 40, Milli(40000)>>) :
            gc \in GCSamples}
    \cup {GivenMetrics(n, q, gc, l) :
            n \in {SMALL_DATASET - 1, SMALL_DATASET},
            q \in {Milli(24999), Milli(25000)},
            gc \in {Milli(34999), Milli(35000)},
            l \in LengthSamples}
    \cup {GivenMetrics(SMALL_DATASET, Milli(24999), Milli(29999),
                       <<50, 101, Milli(50001)>>)}

FASTQData(reads, metrics) == [filename |-> "sample.fastq", reads |-> reads, metrics |-> metrics]

InitialData ==
    {FASTQData(reads, <<>>) : reads \in ReadCollections}
    \cup {FASTQData(<<>>, <<m>>) : m \in SuppliedMetrics}

\* what the LLM may answer
Responses ==
    {[prefix |-> p, body |-> [kind |-> "object", keys |-> NarrativeKeys], suffix |-> "fence"] :
        p \in {"fence json", "fence"}}
    \cup {[prefix |-> "", body |-> [kind |-> "object", keys |-> k], suffix |-> ""] :
            k \in SUBSET NarrativeKeys}
    \cup {[prefix |-> "", body |-> [kind |-> "text", keys |-> {}], suffix |-> ""]}
    \cup {[prefix |-> "", body |-> [kind |-> k, keys |-> names], suffix |-> ""] :
            k \in {"array", "string"}, names \in {{}, NarrativeKeys}}

\* the input_data of a call of process
Inputs ==
    {[has_fastq_data |-> TRUE, format |-> f, fast_mode |-> fm] :
        f \in ReportFormat, fm \in BOOLEAN}
    \cup {[has_fastq_data |-> FALSE, format |-> "html", fast_mode |-> FALSE]}

(***************************************************************************)
(* The state.                                                              *)
(***************************************************************************)
VARIABLES
    fastq_data,   \* the FASTQData the caller holds: reads and cached metrics
    input_data,   \* the argument of the running call of process
    pc,           \* where the call of process is
    report,       \* the AnalysisReport being built: <<>> before it is created
    llm_calls,    \* calls of query_llm made by the running call of process
    llm_outcome,  \* how the awaited query_llm ended: none, returned, raised, cancelled
    result,       \* what process returned
    saved,        \* the report file: not_tried, written, or failed (_save_report raised)
    runs,         \* calls of process so far
    prev          \* the last successful call: the computed fields of its report

vars == <<fastq_data, input_data, pc, report, llm_calls, llm_outcome, result, saved, runs,
          prev>>

NoInput == [has_fastq_data |-> FALSE, format |-> "html", fast_mode |-> FALSE]

NoResult ==
    [status |-> "none", report |-> <<>>, output_path |-> <<>>, summary |-> <<>>]

Init ==
    /\ fastq_data \in InitialData
    /\ input_data = NoInput
    /\ pc = "idle"
    /\ report = <<>>
    /\ llm_calls = 0
    /\ llm_outcome = "none"
    /\ result = NoResult
    /\ saved = "not_tried"
    /\ runs = 0
    /\ prev = <<>>

(***************************************************************************)
(* agents/reporter.py: FASTQReportAgent.process, step by step.             *)
(* pc: idle -> create_report -> flags -> narrative [-> await_llm]          *)
(*     -> recommendations -> chart_data -> sections -> save -> done,       *)
(* or raised (process raised), or cancelled (CancelledError went through). *)
(***************************************************************************)
\* variant: an empty read list taken for a missing FASTQData
missing_fastq_data_or_empty(input, data) ==
    ~input.has_fastq_data \/ data.reads = <<>>

\* "if not fastq_data": the key is missing or None (a FASTQData is always truthy)
missing_fastq_data(input, data) == ~input.has_fastq_data

\* variant: the fast_mode flag ignored
use_fast_analysis_size_only(fast_mode, rep) ==
    rep.metrics.total_reads < SMALL_DATASET

\* the test that picks the template narrative over the LLM
use_fast_analysis(fast_mode, rep) ==
    fast_mode \/ rep.metrics.total_reads < SMALL_DATASET

\* variant: the error of query_llm left to propagate
propagates_llm_error == FALSE

\* "except Exception" around query_llm catches the RuntimeError query_llm raises
catches_llm_error == TRUE

\* "except Exception" catches no asyncio.CancelledError (a BaseException)
catches_cancellation == FALSE

\* variant: the error dict handing out the report made before the failure
error_result_with_report ==
    [status |-> "error", report |-> report, output_path |-> <<>>, summary |-> <<>>]

\* the dict process returns from its except branch
error_result ==
    [status |-> "error", report |-> <<>>, output_path |-> <<>>, summary |-> <<>>]

\* the dict process returns after saving
success_result(rep, format) ==
    [status |-> "success", report |-> <<rep>>, output_path |-> <<format>>,
     summary |-> <<[quality_assessment |-> rep.quality_assessment,
                    total_recommendations |-> Len(rep.recommendations),
                    high_priority_issues |-> Len(get_high_priority_recommendations(rep))]>>]

\* report.ai_summary / report.ai_insights from the analysis dict
with_narrative(rep, ai_analysis) ==
    [rep EXCEPT !.ai_summary = ai_analysis.summary, !.ai_insights = ai_analysis.insights]

\* a caller (the parser agent, a test) calls fastq_data.calculate_metrics()
CalculateMetrics ==
    /\ pc = "idle"
    /\ fastq_data' = after_calculate_metrics(fastq_data)
    /\ UNCHANGED <<input_data, pc, report, llm_calls, llm_outcome, result, saved, runs, prev>>

\* process is called: lines 67-77
Process(input) ==
    /\ pc = "idle"
    /\ runs < MaxRuns
    /\ input_data' = input
    /\ runs' = runs + 1
    /\ llm_calls' = 0
    /\ llm_outcome' = "none"
    /\ pc' = IF missing_fastq_data(input, fastq_data) THEN "raised" ELSE "create_report"
    /\ UNCHANGED <<fastq_data, report, result, saved, prev>>

\* _create_analysis_report, lines 123-141: metrics, assessment, the report object
CreateReport ==
    /\ pc = "create_report"
    /\ LET metrics == IF fastq_data.metrics # <<>>
                      THEN fastq_data.metrics[1]
                      ELSE calculate_metrics(fastq_data)
       IN  /\ fastq_data' = IF fastq_data.metrics # <<>>
                            THEN fastq_data
                            ELSE after_calculate_metrics(fastq_data)
           /\ report' = <<AnalysisReport(fastq_data.filename, metrics,
                                         _assess_overall_quality(metrics))>>
    /\ pc' = "flags"
    /\ UNCHANGED <<input_data, llm_calls, llm_outcome, result, saved, runs, prev>>

\* line 144
IdentifyFlags ==
    /\ pc = "flags"
    /\ report' = <<[report[1] EXCEPT
                      !.quality_flags = _identify_quality_flags(report[1].metrics)]>>
    /\ pc' = "narrative"
    /\ UNCHANGED <<fastq_data, input_data, llm_calls, llm_outcome, result, saved, runs, prev>>

\* lines 147-152, 156-157: the template narrative, no call of the LLM
FastAnalysis ==
    /\ pc = "narrative"
    /\ use_fast_analysis(input_data.fast_mode, report[1])
    /\ report' = <<with_narrative(report[1], _generate_fast_analysis(report[1]))>>
    /\ pc' = "recommendations"
    /\ UNCHANGED <<fastq_data, input_data, llm_calls, llm_outcome, result, saved, runs, prev>>

\* lines 153-154 and _generate_ai_analysis up to the await of query_llm
StartAIAnalysis ==
    /\ pc = "narrative"
    /\ ~use_fast_analysis(input_data.fast_mode, report[1])
    /\ IF report[1].metrics.total_reads < 10
       THEN /\ report' = <<with_narrative(report[1], small_dataset_analysis(report[1]))>>
            /\ pc' = "recommendations"
            /\ UNCHANGED llm_calls
       ELSE /\ llm_calls' = llm_calls + 1
            /\ pc' = "await_llm"
            /\ UNCHANGED report
    /\ UNCHANGED <<fastq_data, input_data, llm_outcome, result, saved, runs, prev>>

\* query_llm returns a response: lines 327-361, then 156-157; a returned value
\* that is no dict makes ai_analysis.get raise AttributeError at line 156, outside
\* every try of _create_analysis_report, and process returns the error dict
LLMReturns(ai_response) ==
    /\ pc = "await_llm"
    /\ llm_outcome' = "returned"
    /\ IF returns_dict(ai_response)
       THEN /\ report' = <<with_narrative(report[1], parse_ai_response(ai_response))>>
            /\ pc' = "recommendations"
            /\ UNCHANGED result
       ELSE /\ result' = error_result
            /\ pc' = "done"
            /\ UNCHANGED report
    /\ UNCHANGED <<fastq_data, input_data, llm_calls, saved, runs, prev>>

\* query_llm raises RuntimeError: lines 362-368, then 156-157; were it not caught,
\* the except branch of process (lines 109-116) would return the error dict
LLMRaises ==
    /\ pc = "await_llm"
    /\ llm_outcome' = "raised"
    /\ IF catches_llm_error
       THEN /\ report' = <<with_narrative(report[1], ai_unavailable)>>
            /\ pc' = "recommendations"
            /\ UNCHANGED result
       ELSE /\ result' = error_result
            /\ pc' = "done"
            /\ UNCHANGED report
    /\ UNCHANGED <<fastq_data, input_data, llm_calls, saved, runs, prev>>

\* the task is cancelled while query_llm is awaited (or the blocking client call
\* is interrupted): CancelledError (KeyboardInterrupt) is a BaseException, raised
\* at the await, and passes every "except Exception"
LLMCancelled ==
    /\ pc = "await_llm"
    /\ llm_outcome' = "cancelled"
    /\ IF catches_cancellation
       THEN /\ report' = <<with_narrative(report[1], ai_unavailable)>>
            /\ pc' = "recommendations"
       ELSE /\ pc' = "cancelled"
            /\ UNCHANGED report
    /\ UNCHANGED <<fastq_data, input_data, llm_calls, result, saved, runs, prev>>

\* lines 160-161
GenerateRecommendations ==
    /\ pc = "recommendations"
    /\ report' = <<[report[1] EXCEPT !.recommendations = _generate_recommendations(report[1])]>>
    /\ pc' = "chart_data"
    /\ UNCHANGED <<fastq_data, input_data, llm_calls, llm_outcome, result, saved, runs, prev>>

\* lines 84-85
GenerateChartData ==
    /\ pc = "chart_data"
    /\ report' = <<[report[1] EXCEPT !.chart_data = <<_generate_chart_data(fastq_data)>>]>>
    /\ pc' = "sections"
    /\ UNCHANGED <<fastq_data, input_data, llm_calls, llm_outcome, result, saved, runs, prev>>

\* lines 88-89
CreateSections ==
    /\ pc = "sections"
    /\ report' = <<[report[1] EXCEPT !.sections = _create_report_sections(report[1])]>>
    /\ pc' = "save"
    /\ UNCHANGED <<fastq_data, input_data, llm_calls, llm_outcome, result, saved, runs, prev>>

\* lines 92-116: _save_report makes the directory and writes the file (io_ok) or
\* raises: OSError from mkdir or the write, ValueError for a format without a
\* writer; process returns the success or the error dict
SaveReport(io_ok) ==
    /\ pc = "save"
    /\ saved' = IF ~io_ok THEN "failed"
                ELSE IF supported_format(input_data.format) THEN "written"
                ELSE "unsupported"
    /\ result' = IF supported_format(input_data.format) /\ io_ok
                 THEN success_result(report[1], input_data.format)
                 ELSE error_result
    /\ pc' = "done"
    /\ UNCHANGED <<fastq_data, input_data, report, llm_calls, llm_outcome, runs, prev>>

\* the caller takes what process gave and is ready for another call
NextCall ==
    /\ pc \in {"done", "raised", "cancelled"}
    /\ runs < MaxRuns
    /\ prev' = IF result.status = "success"
               THEN <<[metrics |-> report[1].metrics,
                       quality_assessment |-> report[1].quality_assessment,
                       quality_flags |-> report[1].quality_flags,
                       recommendations |-> report[1].recommendations,
                       llm_outcome |-> llm_outcome,
                       template_narrative |->
                           IF llm_calls = 0
                           THEN <<[summary |-> report[1].ai_summary,
                                   insights |-> report[1].ai_insights]>>
                           ELSE <<>>]>>
               ELSE prev
    /\ pc' = "idle"
    /\ report' = <<>>
    /\ result' = NoResult
    /\ saved' = "not_tried"
    /\ input_data' = NoInput
    /\ llm_calls' = 0
    /\ llm_outcome' = "none"
    /\ UNCHANGED <<fastq_data, runs>>

Next ==
    \/ CalculateMetrics
    \/ \E input \in Inputs : Process(input)
    \/ CreateReport
    \/ IdentifyFlags
    \/ FastAnalysis
    \/ StartAIAnalysis
    \/ \E ai_response \in Responses : LLMReturns(ai_response)
    \/ LLMRaises
    \/ LLMCancelled
    \/ GenerateRecommendations
    \/ GenerateChartData
    \/ CreateSections
    \/ \E io_ok \in BOOLEAN : SaveReport(io_ok)
    \/ NextCall

Spec == Init /\ [][Next]_vars

(***************************************************************************)
(* Stages of a call of process, read off pc.                               *)
(***************************************************************************)
\* the report exists and its flags have been identified
FlagsIdentified ==
    /\ report # <<>>
    /\ pc \in {"narrative", "await_llm", "recommendations", "chart_data", "sections",
               "save", "done", "cancelled"}

\* _generate_recommendations has returned and its list is in the report
RecommendationsGenerated ==
    /\ report # <<>>
    /\ pc \in {"chart_data", "sections", "save"} \/ (pc = "done" /\ saved # "not_tried")

\* the narrative step is over and the report holds its summary and insights
NarrativeObtained ==
    /\ report # <<>>
    /\ pc \in {"recommendations", "chart_data", "sections", "save"}
       \/ (pc = "done" /\ saved # "not_tried")

Categories(recs) == [i \in 1..Len(recs) |-> recs[i].category]

RuleOrder == <<"Quality Filtering", "Length Filtering", "Contamination Check",
               "Adapter Trimming">>

RuleIndex(category) == CHOOSE i \in 1..Len(RuleOrder) : RuleOrder[i] = category

Has(recs, category) == \E i \in 1..Len(recs) : recs[i].category = category

(***************************************************************************)
(* C1: the recommendation list is a subsequence of [Quality Filtering,     *)
(* Length Filtering, Contamination Check, Adapter Trimming] in that order, *)
(* and a category is present exactly when its rule condition holds:        *)
(* low_quality_reads, uneven_read_lengths, poor_gc_content, and            *)
(* average_read_length > 50 whatever the flags.                            *)
(***************************************************************************)
C1_RecommendationOrder ==
    RecommendationsGenerated =>
        LET recs  == report[1].recommendations
            flags == report[1].quality_flags
            cats  == Categories(recs)
        IN  /\ \A i \in 1..Len(recs) : cats[i] \in {RuleOrder[k] : k \in 1..Len(RuleOrder)}
            /\ \A i, j \in 1..Len(recs) :
                    i < j => RuleIndex(cats[i]) < RuleIndex(cats[j])
            /\ Has(recs, "Quality Filtering") <=> flags.low_quality_reads
            /\ Has(recs, "Length Filtering") <=> flags.uneven_read_lengths
            /\ Has(recs, "Contamination Check") <=> flags.poor_gc_content
            /\ Has(recs, "Adapter Trimming")
                    <=> RGt(report[1].metrics.average_read_length, FromInt(50))

\* all four rules fire and the list is in rule order
C1_Witness ==
    /\ RecommendationsGenerated
    /\ Categories(report[1].recommendations) = RuleOrder

(***************************************************************************)
(* C8: the assessment is a total function of average_quality with          *)
(* inclusive lower thresholds (excellent from 35, good from 30, fair from  *)
(* 25, poor from 20, failed below 20), and it is monotone: a higher        *)
(* average never yields a lower verdict.                                   *)
(***************************************************************************)
VerdictRank(qa) ==
    CASE qa = "failed" -> 0
      [] qa = "poor" -> 1
      [] qa = "fair" -> 2
      [] qa = "good" -> 3
      [] qa = "excellent" -> 4

C8_AssessmentThresholds ==
    report # <<>> =>
        LET q  == report[1].metrics.average_quality
            qa == report[1].quality_assessment
        IN  /\ qa \in QualityAssessment
            /\ (qa = "excellent") <=> RGe(q, FromInt(35))
            /\ (qa = "good") <=> (RGe(q, FromInt(30)) /\ RLt(q, FromInt(35)))
            /\ (qa = "fair") <=> (RGe(q, FromInt(25)) /\ RLt(q, FromInt(30)))
            /\ (qa = "poor") <=> (RGe(q, FromInt(20)) /\ RLt(q, FromInt(25)))
            /\ (qa = "failed") <=> RLt(q, FromInt(20))
            /\ \A s \in QualitySamples :
                  LET other == _assess_overall_quality([average_quality |-> s])
                  IN  /\ RLe(q, s) => VerdictRank(qa) <= VerdictRank(other)
                      /\ RLe(s, q) => VerdictRank(other) <= VerdictRank(qa)

\* an average of exactly 35 is rated excellent
C8_Witness ==
    /\ report # <<>>
    /\ report[1].metrics.average_quality = FromInt(35)
    /\ report[1].quality_assessment = "excellent"

(***************************************************************************)
(* C9: poor_gc_content is set exactly when gc_content lies outside the     *)
(* inclusive band [35, 65]; 35, 40, 60 and 65 themselves never set it.     *)
(***************************************************************************)
C9_PoorGCFlag ==
    FlagsIdentified =>
        LET gc == report[1].metrics.gc_content
        IN  /\ report[1].quality_flags.poor_gc_content
                <=> (RLt(gc, FromInt(35)) \/ RGt(gc, FromInt(65)))
            /\ gc \in {FromInt(35), FromInt(40), FromInt(60), FromInt(65)}
                => ~report[1].quality_flags.poor_gc_content

\* a GC content of exactly 65 leaves the flag unset
C9_Witness ==
    /\ FlagsIdentified
    /\ report[1].metrics.gc_content = FromInt(65)
    /\ ~report[1].quality_flags.poor_gc_content

(***************************************************************************)
(* C10: low_quality_reads is set exactly when average_quality < 25; an     *)
(* average of exactly 25 does not set it.                                  *)
(***************************************************************************)
C10_LowQualityFlag ==
    FlagsIdentified =>
        (report[1].quality_flags.low_quality_reads
            <=> RLt(report[1].metrics.average_quality, FromInt(25)))

\* an average of exactly 25 leaves the flag unset
C10_Witness ==
    /\ FlagsIdentified
    /\ report[1].metrics.average_quality = FromInt(25)
    /\ ~report[1].quality_flags.low_quality_reads

(***************************************************************************)
(* C2: when the narrative call fails in a non-fast invocation, the         *)
(* report's summary and insights are exactly those the template path       *)
(* (_generate_fast_analysis) produces for the same metrics, assessment and *)
(* flags.                                                                  *)
(***************************************************************************)
C2_FallbackIsTemplate ==
    (NarrativeObtained /\ llm_outcome = "raised") =>
        LET template == _generate_fast_analysis(
                            [report[1] EXCEPT !.recommendations = <<>>])
        IN  /\ report[1].ai_summary = template.summary
            /\ report[1].ai_insights = template.insights

(***************************************************************************)
(* C3: a failure of the narrative call is not a failure of the analysis:   *)
(* when query_llm raises and saving succeeds, process returns status       *)
(* "success" with a report whose metrics, assessment, flags and            *)
(* recommendations are those of a call in which the narrative call         *)
(* succeeded.                                                              *)
(***************************************************************************)
C3_LLMFailureRecovered ==
    (pc = "done" /\ llm_outcome = "raised") =>
        /\ saved # "not_tried"
        /\ saved = "written" =>
            /\ result.status = "success"
            /\ result.report # <<>>
            /\ (prev # <<>> /\ prev[1].llm_outcome = "returned") =>
                  LET r == result.report[1]
                  IN  /\ r.metrics = prev[1].metrics
                      /\ r.quality_assessment = prev[1].quality_assessment
                      /\ r.quality_flags = prev[1].quality_flags
                      /\ r.recommendations = prev[1].recommendations

\* a call in which query_llm raised returns success, after a call on the same
\* data in which it returned, and the report carries recommendations
C3_Witness ==
    /\ pc = "done"
    /\ llm_outcome = "raised"
    /\ result.status = "success"
    /\ prev # <<>>
    /\ prev[1].llm_outcome = "returned"
    /\ result.report[1].recommendations # <<>>

(***************************************************************************)
(* C4: if the narrative call is cancelled while it is awaited, the         *)
(* metrics, assessment, flags and recommendations of the invocation are    *)
(* all computed and remain available: cancelling the narrative step never  *)
(* leaves a report without its recommendations.                            *)
(***************************************************************************)
C4_CancellationKeepsRecommendations ==
    llm_outcome = "cancelled" =>
        /\ report # <<>>
        /\ report[1].quality_flags = _identify_quality_flags(report[1].metrics)
        /\ report[1].recommendations = _generate_recommendations(report[1])

(***************************************************************************)
(* C5: the recommendations are computed before the narrative is obtained,  *)
(* so the template narrative is synthesized from the recommendations that  *)
(* end up in the report (its high-priority-recommendation insight reflects *)
(* them).                                                                  *)
(***************************************************************************)
C5_TemplateReflectsRecommendations ==
    (pc = "done" /\ result.status = "success"
        /\ use_fast_analysis(input_data.fast_mode, result.report[1])) =>
        result.report[1].ai_insights = _generate_fast_analysis(result.report[1]).insights

(***************************************************************************)
(* C6: one call of process makes no call of query_llm when fast_mode is    *)
(* set or total_reads < 50 and exactly one otherwise; a failed call is not *)
(* retried.                                                                *)
(***************************************************************************)
C6_NarrativeCallCount ==
    /\ llm_calls <= 1
    /\ llm_outcome = "raised" => llm_calls = 1
    /\ (NarrativeObtained \/ (report # <<>> /\ pc \in {"done", "cancelled"})) =>
          llm_calls = IF input_data.fast_mode \/ report[1].metrics.total_reads < 50
                      THEN 0 ELSE 1

\* a call of process has ended after query_llm raised, with one call made
C6_Witness ==
    /\ pc = "done"
    /\ llm_outcome = "raised"
    /\ llm_calls = 1
    /\ ~input_data.fast_mode
    /\ report[1].metrics.total_reads = 50

(***************************************************************************)
(* C7: process never raises for a well-formed, possibly empty read         *)
(* collection: for every FASTQData passed as fastq_data, also one with no  *)
(* reads, it returns a result instead of propagating an exception.         *)
(***************************************************************************)
C7_NeverRaisesOnData ==
    /\ input_data.has_fastq_data => pc # "raised"
    /\ pc = "done" => result.status \in {"success", "error"}

\* process has returned success for a FASTQData with no reads
C7_Witness ==
    /\ pc = "done"
    /\ input_data.has_fastq_data
    /\ fastq_data.reads = <<>>
    /\ fastq_data.metrics = <<>>
    /\ result.status = "success"
    /\ result.report[1].metrics.total_reads = 0

(***************************************************************************)
(* C11: uneven_read_lengths is set exactly when                            *)
(* max_read_length - min_read_length > 50; a spread of exactly 50 does not *)
(* set it.                                                                 *)
(***************************************************************************)
C11_UnevenLengthsFlag ==
    FlagsIdentified =>
        LET m == report[1].metrics
        IN  report[1].quality_flags.uneven_read_lengths
                <=> (m.max_read_length - m.min_read_length > 50)

\* a spread of exactly 50 leaves the flag unset
C11_Witness ==
    /\ FlagsIdentified
    /\ report[1].metrics.max_read_length - report[1].metrics.min_read_length = 50
    /\ ~report[1].quality_flags.uneven_read_lengths

(***************************************************************************)
(* A caller that also changes the read list between calls.  FASTQData is a *)
(* mutable pydantic model: assigning or appending to data.reads leaves     *)
(* data.metrics as it was.                                                 *)
(***************************************************************************)
\* the read lists a caller puts in place
ChangedReads ==
    { <<>>,
      <<MkRead(40, 20, 40, 40)>>,
      <<MkRead(2, 1, 40, 40), MkRead(6, 5, 10, 12)>>,
      Rep(MkRead(4, 2, 30, 30), SMALL_DATASET) }

\* models/fastq_data.py line 64: the reads field is assigned by the caller
SetReads(reads) ==
    /\ pc = "idle"
    /\ reads # fastq_data.reads
    /\ fastq_data' = [fastq_data EXCEPT !.reads = reads]
    /\ UNCHANGED <<input_data, pc, report, llm_calls, llm_outcome, result, saved, runs, prev>>

InitReads ==
    /\ Init
    /\ fastq_data.metrics = <<>>
    /\ fastq_data.reads \in ChangedReads

NextReads ==
    \/ Next
    \/ \E reads \in ChangedReads : SetReads(reads)

SpecReads == InitReads /\ [][NextReads]_vars

(***************************************************************************)
(* C12: the metrics of a report are those of the reads present at that     *)
(* call of process, whatever calculate_metrics calls and changes of the    *)
(* read list came before; no metrics value computed earlier is reused.     *)
(***************************************************************************)
C12_MetricsFromCurrentReads ==
    report # <<>> => report[1].metrics = calculate_metrics(fastq_data)

(***************************************************************************)
(* Two invocations of process on one agent and one event loop.  The        *)
(* variables hold the frame of the invocation that runs; here prev holds   *)
(* the frame of the other one, which has not started, waits at             *)
(* "await self.query_llm(...)" or has finished.  The agent keeps only      *)
(* name, config and the client; all of process's data are locals of the    *)
(* coroutine or hang off the FASTQData passed in.  Control changes hands   *)
(* only where the running coroutine is not started, is suspended at the    *)
(* await, or is over.                                                      *)
(***************************************************************************)
\* variant: the report kept on the agent (self.report) instead of in a local
report_on_agent == FALSE

\* "report = AnalysisReport(...)" is a local of _create_analysis_report
report_is_local == TRUE

\* the FASTQData values of the two invocations
ConcurrentData ==
    { FASTQData(<<MkRead(40, 20, 40, 40)>>, <<>>),
      FASTQData(Rep(MkRead(4, 2, 30, 30), SMALL_DATASET), <<>>),
      FASTQData(Rep(MkRead(3, 0, 24, 24), SMALL_DATASET) \o <<MkRead(60, 0, 24, 24)>>, <<>>),
      FASTQData(<<>>, <<GivenMetrics(SMALL_DATASET, Milli(35000), Milli(65001),
                                     <<10, 61, Milli(30000)>>)>>) }

ConcurrentInputs ==
    {[has_fastq_data |-> TRUE, format |-> "html", fast_mode |-> fm] : fm \in BOOLEAN}

ConcurrentResponses ==
    {[prefix |-> "fence json", body |-> [kind |-> "object", keys |-> NarrativeKeys],
      suffix |-> "fence"],
     [prefix |-> "", body |-> [kind |-> "text", keys |-> {}], suffix |-> ""]}

\* the frame of an invocation
Frame(data, input, at, rep, calls, outcome, res, sv) ==
    [fastq_data |-> data, input_data |-> input, pc |-> at, report |-> rep,
     llm_calls |-> calls, llm_outcome |-> outcome, result |-> res, saved |-> sv]

InitConcurrent ==
    /\ fastq_data \in ConcurrentData
    /\ input_data = NoInput
    /\ pc = "idle"
    /\ report = <<>>
    /\ llm_calls = 0
    /\ llm_outcome = "none"
    /\ result = NoResult
    /\ saved = "not_tried"
    /\ runs = 0
    /\ \E other \in ConcurrentData \ {fastq_data} :
          prev = <<Frame(other, NoInput, "idle", <<>>, 0, "none", NoResult, "not_tried")>>

\* the event loop runs the other coroutine
Switch ==
    /\ pc \in {"idle", "await_llm", "done", "raised", "cancelled"}
    /\ prev[1].pc \in {"idle", "await_llm"}
    /\ prev' = <<Frame(fastq_data, input_data, pc, report, llm_calls, llm_outcome,
                       result, saved)>>
    /\ fastq_data' = prev[1].fastq_data
    /\ input_data' = prev[1].input_data
    /\ pc' = prev[1].pc
    /\ report' = IF report_is_local THEN prev[1].report ELSE report
    /\ llm_calls' = prev[1].llm_calls
    /\ llm_outcome' = prev[1].llm_outcome
    /\ result' = prev[1].result
    /\ saved' = prev[1].saved
    /\ UNCHANGED runs

NextConcurrent ==
    \/ \E input \in ConcurrentInputs : Process(input)
    \/ CreateReport
    \/ IdentifyFlags
    \/ FastAnalysis
    \/ StartAIAnalysis
    \/ \E ai_response \in ConcurrentResponses : LLMReturns(ai_response)
    \/ LLMRaises
    \/ LLMCancelled
    \/ GenerateRecommendations
    \/ GenerateChartData
    \/ CreateSections
    \/ \E io_ok \in BOOLEAN : SaveReport(io_ok)
    \/ Switch

SpecConcurrent == InitConcurrent /\ [][NextConcurrent]_vars

\* what process computes for data when no other invocation runs
AloneReport(data) ==
    LET metrics == IF data.metrics # <<>> THEN data.metrics[1] ELSE calculate_metrics(data)
        rep == AnalysisReport(data.filename, metrics, _assess_overall_quality(metrics))
        flagged == [rep EXCEPT !.quality_flags = _identify_quality_flags(metrics)]
    IN  [flagged EXCEPT !.recommendations = _generate_recommendations(flagged)]

\* the invocation with frame f is past _generate_recommendations
FrameHasRecommendations(f) ==
    f.pc \in {"chart_data", "sections", "save", "done"} /\ f.report # <<>>

FrameAsAlone(f) ==
    FrameHasRecommendations(f) =>
        LET alone == AloneReport(f.fastq_data)
        IN  /\ f.report[1].metrics = alone.metrics
            /\ f.report[1].quality_assessment = alone.quality_assessment
            /\ f.report[1].quality_flags = alone.quality_flags
            /\ f.report[1].recommendations = alone.recommendations

RunningFrame ==
    Frame(fastq_data, input_data, pc, report, llm_calls, llm_outcome, result, saved)

(***************************************************************************)
(* C13: of two invocations of process on different FASTQData values, each  *)
(* one, however the two interleave at the narrative call, has the metrics, *)
(* assessment, flags and recommendations it has when it runs alone.        *)
(***************************************************************************)
C13_ConcurrentIndependent ==
    FrameAsAlone(RunningFrame) /\ FrameAsAlone(prev[1])

\* one invocation has resumed from its narrative call with its recommendations
\* made while the other, started in between, still waits at its own
C13_Witness ==
    /\ FrameHasRecommendations(RunningFrame)
    /\ llm_calls = 1
    /\ prev[1].pc = "await_llm"
    /\ prev[1].report # <<>>
    /\ prev[1].report[1].metrics # report[1].metrics

(***************************************************************************)
(* C14: a second analysis of the same read collection gives the same       *)
(* metrics, assessment, flags and recommendations as the first, and the    *)
(* same summary and insights when both took the template path.             *)
(***************************************************************************)
C14_Idempotent ==
    (pc = "done" /\ result.status = "success" /\ prev # <<>>) =>
        /\ report[1].metrics = prev[1].metrics
        /\ report[1].quality_assessment = prev[1].quality_assessment
        /\ report[1].quality_flags = prev[1].quality_flags
        /\ report[1].recommendations = prev[1].recommendations
        /\ (llm_calls = 0 /\ prev[1].template_narrative # <<>>) =>
              /\ report[1].ai_summary = prev[1].template_narrative[1].summary
              /\ report[1].ai_insights = prev[1].template_narrative[1].insights

\* both analyses of a collection of reads succeeded on the template path, the
\* first having computed the metrics the second found stored
C14_Witness ==
    /\ pc = "done" /\ result.status = "success" /\ prev # <<>>
    /\ fastq_data.reads # <<>>
    /\ llm_calls = 0 /\ prev[1].template_narrative # <<>>
    /\ Len(report[1].ai_insights) >= 2
    /\ report[1].metrics.total_reads = Len(fastq_data.reads)

(***************************************************************************)
(* Metrics that calculate_metrics computed from a non-empty read list and  *)
(* stored on the FASTQData.                                                *)
(***************************************************************************)
MetricsComputed == fastq_data.reads # <<>> /\ fastq_data.metrics # <<>>

RECURSIVE SumOver(_, _)
SumOver(d, keys) ==
    IF keys = {} THEN 0
    ELSE LET k == CHOOSE x \in keys : TRUE IN d[k] + SumOver(d, keys \ {k})

\* sum(d.values())
SumOfCounts(d) == SumOver(d, DOMAIN d)

(***************************************************************************)
(* C15: for a non-empty read collection the counts of quality_distribution *)
(* add up to total_bases and the counts of length_distribution add up to   *)
(* total_reads.                                                            *)
(***************************************************************************)
C15_DistributionTotals ==
    MetricsComputed =>
        LET m == fastq_data.metrics[1]
        IN  /\ SumOfCounts(m.quality_distribution) = m.total_bases
            /\ SumOfCounts(m.length_distribution) = m.total_reads

\* reads of different lengths whose scores fall in more than one bucket
C15_Witness ==
    /\ MetricsComputed
    /\ Cardinality(DOMAIN fastq_data.metrics[1].quality_distribution) >= 2
    /\ fastq_data.metrics[1].min_read_length < fastq_data.metrics[1].max_read_length
    /\ fastq_data.metrics[1].total_bases > fastq_data.metrics[1].total_reads

\* process was given a FASTQData with no reads and no metrics of the caller
EmptyCollection ==
    input_data.has_fastq_data /\ fastq_data.reads = <<>> /\ fastq_data.metrics = <<>>

(***************************************************************************)
(* C16: for an empty read collection calculate_metrics returns, without    *)
(* raising, total_reads 0, total_bases 0, minimum, maximum and average     *)
(* length 0, average_quality 0, gc_content 0 and two empty distributions.  *)
(***************************************************************************)
C16_EmptyMetrics ==
    (EmptyCollection /\ pc \notin {"idle", "create_report"}) =>
        /\ pc # "raised"
        /\ report # <<>>
        /\ LET m == report[1].metrics
           IN  /\ m.total_reads = 0
               /\ m.total_bases = 0
               /\ m.min_read_length = 0
               /\ m.max_read_length = 0
               /\ m.average_read_length = FromInt(0)
               /\ m.average_quality = FromInt(0)
               /\ m.gc_content = FromInt(0)
               /\ DOMAIN m.quality_distribution = {}
               /\ DOMAIN m.length_distribution = {}

\* the report of an empty collection has been written
C16_Witness ==
    /\ EmptyCollection
    /\ pc = "done" /\ result.status = "success"
    /\ report[1].metrics.total_reads = 0

(***************************************************************************)
(* C17: nothing downstream treats the empty collection apart: its report   *)
(* has assessment failed, low_quality_reads and poor_gc_content set,       *)
(* uneven_read_lengths unset, and the recommendations Quality Filtering    *)
(* (high) then Contamination Check (high), with no Adapter Trimming.       *)
(***************************************************************************)
C17_EmptyDownstream ==
    (EmptyCollection /\ RecommendationsGenerated) =>
        LET r == report[1]
        IN  /\ r.quality_assessment = "failed"
            /\ r.quality_flags.low_quality_reads
            /\ r.quality_flags.poor_gc_content
            /\ ~r.quality_flags.uneven_read_lengths
            /\ [i \in 1..Len(r.recommendations) |->
                   <<r.recommendations[i].category, r.recommendations[i].priority>>]
               = << <<"Quality Filtering", "high">>, <<"Contamination Check", "high">> >>

\* the recommendations of an empty collection have been generated
C17_Witness ==
    /\ EmptyCollection
    /\ RecommendationsGenerated
    /\ report[1].metrics.total_reads = 0
    /\ Len(report[1].recommendations) = 2

\* the mean of the scores of one read, a read without scores counting as 0
OwnMeanQuality(read) ==
    IF Len(read.quality_scores) = 0
    THEN FromInt(0)
    ELSE Rat(sum(read.quality_scores), Len(read.quality_scores))

\* the share of G and C, in either case, among the bases of one read, in percent
OwnGCPercent(read) ==
    IF Len(read.sequence) = 0
    THEN FromInt(0)
    ELSE Rat(100 * Cardinality({i \in 1..Len(read.sequence) :
                                   read.sequence[i] \in {"G", "C", "g", "c"}}),
             Len(read.sequence))

(***************************************************************************)
(* C18: average_quality is the mean over the reads of each read's own mean *)
(* score (0 for a read without scores) and gc_content the mean over the    *)
(* reads of each read's GC percentage: every read weighs the same whatever *)
(* its length, so neither is the mean over the pooled bases.               *)
(***************************************************************************)
C18_MeanOfReadMeans ==
    MetricsComputed =>
        LET reads == fastq_data.reads
            n     == Len(reads)
            m     == fastq_data.metrics[1]
        IN  /\ RMulInt(m.average_quality, n)
                 = RSumRange([i \in 1..n |-> OwnMeanQuality(reads[i])], 1, n)
            /\ RMulInt(m.gc_content, n)
                 = RSumRange([i \in 1..n |-> OwnGCPercent(reads[i])], 1, n)

\* reads of unequal length, one of them without scores: both values differ
\* from the pooled ones
C18_Witness ==
    /\ MetricsComputed
    /\ \E i \in 1..Len(fastq_data.reads) : fastq_data.reads[i].quality_scores = <<>>
    /\ fastq_data.metrics[1].average_quality # pooled_quality(fastq_data.reads)
    /\ fastq_data.metrics[1].gc_content # pooled_gc_content(fastq_data.reads)

\* how many scores of the reads lie in lo..hi
ScoresWithin(reads, lo, hi) ==
    sum([i \in 1..Len(reads) |->
            Cardinality({j \in 1..Len(reads[i].quality_scores) :
                            reads[i].quality_scores[j] \in lo..hi})])

\* how many reads have a length in lo..hi
LengthsWithin(reads, lo, hi) ==
    Cardinality({i \in 1..Len(reads) : Len(reads[i].sequence) \in lo..hi})

(***************************************************************************)
(* C19: every quality score s is counted once, in the bucket "b-(b+4)"     *)
(* with b = (s // 5) * 5, and every read length l once, in the bucket      *)
(* "c-(c+49)" with c = (l // 50) * 50; a bucket is present only if some    *)
(* observation falls in it.                                                *)
(***************************************************************************)
C19_Buckets ==
    MetricsComputed =>
        LET reads == fastq_data.reads
            qd    == fastq_data.metrics[1].quality_distribution
            ld    == fastq_data.metrics[1].length_distribution
        IN  /\ \A i \in 1..Len(reads) : \A j \in 1..Len(reads[i].quality_scores) :
                  LET b == (reads[i].quality_scores[j] \div 5) * 5
                  IN  <<b, b + 4>> \in DOMAIN qd
            /\ \A k \in DOMAIN qd :
                  /\ k[1] % 5 = 0 /\ k[2] = k[1] + 4
                  /\ qd[k] = ScoresWithin(reads, k[1], k[2])
                  /\ qd[k] >= 1
            /\ \A i \in 1..Len(reads) :
                  LET c == (Len(reads[i].sequence) \div 50) * 50
                  IN  <<c, c + 49>> \in DOMAIN ld
            /\ \A k \in DOMAIN ld :
                  /\ k[1] % 50 = 0 /\ k[2] = k[1] + 49
                  /\ ld[k] = LengthsWithin(reads, k[1], k[2])
                  /\ ld[k] >= 1

\* reads of 50 and 110 bases with every score 22: one read in "50-99", one in
\* "100-149", 160 scores in "20-24", and no other bucket
C19_Witness ==
    /\ MetricsComputed
    /\ DOMAIN fastq_data.metrics[1].length_distribution = {<<50, 99>>, <<100, 149>>}
    /\ fastq_data.metrics[1].length_distribution[<<50, 99>>] = 1
    /\ DOMAIN fastq_data.metrics[1].quality_distribution = {<<20, 24>>}
    /\ fastq_data.metrics[1].quality_distribution[<<20, 24>>] = 160

(***************************************************************************)
(* C20: an emitted Contamination Check has priority high exactly when      *)
(* gc_content is below 30 or above 70, and medium otherwise.               *)
(***************************************************************************)
C20_ContaminationPriority ==
    RecommendationsGenerated =>
        \A i \in 1..Len(report[1].recommendations) :
            LET rec == report[1].recommendations[i]
                gc  == report[1].metrics.gc_content
            IN  rec.category = "Contamination Check" =>
                    /\ rec.priority \in {"high", "medium"}
                    /\ rec.priority = "high"
                         <=> (gc.num < 30 * gc.den \/ gc.num > 70 * gc.den)

\* a Contamination Check of medium priority at a GC content of exactly 70
C20_Witness ==
    /\ RecommendationsGenerated
    /\ report[1].metrics.gc_content = FromInt(70)
    /\ \E i \in 1..Len(report[1].recommendations) :
          /\ report[1].recommendations[i].category = "Contamination Check"
          /\ report[1].recommendations[i].priority = "medium"

(***************************************************************************)
(* C21: a Quality Filtering recommendation carries min_quality = 20 and    *)
(* min_length = floor(average_read_length * 0.8); a Length Filtering       *)
(* recommendation carries min_length = min_read_length + 10 and            *)
(* max_length = max_read_length - 10.                                      *)
(***************************************************************************)
C21_RuleParameters ==
    RecommendationsGenerated =>
        \A i \in 1..Len(report[1].recommendations) :
            LET rec == report[1].recommendations[i]
                m   == report[1].metrics
                avg == m.average_read_length
            IN  /\ rec.category = "Quality Filtering" =>
                      /\ rec.parameters.min_quality = 20
                      /\ rec.parameters.min_length = (4 * avg.num) \div (5 * avg.den)
                /\ rec.category = "Length Filtering" =>
                      /\ rec.parameters.min_length = m.min_read_length + 10
                      /\ rec.parameters.max_length = m.max_read_length - 10

\* both rules fired, on an average length whose four fifths is no integer
C21_Witness ==
    /\ RecommendationsGenerated
    /\ \E i, j \in 1..Len(report[1].recommendations) :
          /\ report[1].recommendations[i].category = "Quality Filtering"
          /\ report[1].recommendations[j].category = "Length Filtering"
    /\ LET avg == report[1].metrics.average_read_length
       IN  (8 * avg.num) % (10 * avg.den) # 0

\* the narrative of the report came from _generate_fast_analysis
TemplateNarrative == NarrativeObtained /\ llm_calls = 0

(***************************************************************************)
(* C22: the template narrative of an analysis has a summary and between 2  *)
(* and 4 insights, whatever the metrics, assessment, flags and             *)
(* recommendations.                                                        *)
(***************************************************************************)
C22_TemplateInsightCount ==
    TemplateNarrative =>
        /\ report[1].ai_summary # NoText
        /\ report[1].ai_summary.id # ""
        /\ Len(report[1].ai_insights) \in 2..4

\* a template narrative for data with nothing wrong: excellent quality, ideal
\* GC content, reads of one length
C22_Witness ==
    /\ TemplateNarrative
    /\ report[1].quality_assessment = "excellent"
    /\ ~report[1].quality_flags.poor_gc_content
    /\ report[1].metrics.min_read_length = report[1].metrics.max_read_length
    /\ Len(report[1].ai_insights) = 3

\* the template narrative calls the GC content outside the typical range
SaysGCOutsideTypicalRange ==
    \E i \in 1..Len(report[1].ai_insights) :
        report[1].ai_insights[i].id
            = "GC content outside typical range may indicate bias or contamination"

(***************************************************************************)
(* C23: GC classification and GC flag never disagree: in every report with *)
(* a template narrative, the narrative calls the GC content outside the    *)
(* typical range exactly when poor_gc_content is set.                      *)
(***************************************************************************)
C23_GCNarrativeAgreesWithFlag ==
    TemplateNarrative =>
        (SaysGCOutsideTypicalRange <=> report[1].quality_flags.poor_gc_content)

\* GC content on the edge of the acceptable band, outside the ideal one: the
\* flag is unset and the narrative calls it acceptable
C23_Witness ==
    /\ TemplateNarrative
    /\ report[1].metrics.gc_content = FromInt(GC_ACCEPTABLE_MAX)
    /\ ~report[1].quality_flags.poor_gc_content
    /\ ~SaysGCOutsideTypicalRange
    /\ \E i \in 1..Len(report[1].ai_insights) :
          report[1].ai_insights[i].id
              = "GC content is acceptable but slightly outside ideal range"

(***************************************************************************)
(* C24: a malformed narrative response does not fail the analysis: once    *)
(* query_llm has returned, whatever it returned, the report gets a summary *)
(* and the call goes on to the recommendations and to saving.              *)
(***************************************************************************)
C24_MalformedResponseTolerated ==
    (llm_outcome = "returned" /\ pc # "await_llm") =>
        /\ pc = "done" => saved # "not_tried"
        /\ report[1].ai_summary # NoText

(***************************************************************************)
(* cli.py: generate_report.  The parser agent parses the file and the      *)
(* report agent makes the report.  Here fastq_data starts as what the file *)
(* holds, input_data as the options of the command line (--format,         *)
(* --fast), and prev holds parse_result once the parser has answered.      *)
(* pc: cli_parse -> [parser_await_llm ->] idle -> the steps of process,    *)
(* or cli_exit (the command stops after a failed parse).                   *)
(***************************************************************************)
\* the reads of the files given to the command
CLIFiles ==
    { <<>>,
      <<MkRead(40, 20, 40, 40)>>,
      Rep(MkRead(4, 2, 30, 30), SMALL_DATASET - 1),
      Rep(MkRead(4, 2, 30, 30), SMALL_DATASET),
      Rep(MkRead(3, 0, 24, 24), SMALL_DATASET) \o <<MkRead(60, 0, 24, 24)>> }

\* cli.py line 142: parser.process({"file_path": fastq_file}); parser.py line 30:
\* input_data.get("fast_mode", False)
parser_fast_mode(fast_mode) == FALSE

\* parser.py line 45
parser_skips_llm(fast_mode, metrics) == fast_mode \/ metrics.total_reads < 50

\* the parse_result dict, by its parsing_status and the LLM queries behind it
ParseResult(parsing_status, llm_queries) ==
    [parsing_status |-> parsing_status, llm_queries |-> llm_queries]

InitCLI ==
    /\ fastq_data \in {FASTQData(reads, <<>>) : reads \in CLIFiles}
    /\ input_data \in {[has_fastq_data |-> TRUE, format |-> f, fast_mode |-> fm] :
                          f \in ReportFormat, fm \in BOOLEAN}
    /\ pc = "cli_parse"
    /\ report = <<>>
    /\ llm_calls = 0
    /\ llm_outcome = "none"
    /\ result = NoResult
    /\ saved = "not_tried"
    /\ runs = 0
    /\ prev = <<>>

\* parser.py lines 27-52: _parse_fastq_file (a file without reads raises
\* ValueError, caught at line 68), calculate_metrics, the test before the query
ParserProcess ==
    /\ pc = "cli_parse"
    /\ IF fastq_data.reads = <<>>
       THEN /\ prev' = <<ParseResult("error", 0)>>
            /\ pc' = "cli_exit"
            /\ UNCHANGED fastq_data
       ELSE /\ fastq_data' = after_calculate_metrics(fastq_data)
            /\ IF parser_skips_llm(parser_fast_mode(input_data.fast_mode),
                                   calculate_metrics(fastq_data))
               THEN /\ prev' = <<ParseResult("success", 0)>>
                    /\ pc' = "idle"
               ELSE /\ prev' = <<ParseResult("pending", 1)>>
                    /\ pc' = "parser_await_llm"
    /\ UNCHANGED <<input_data, report, llm_calls, llm_outcome, result, saved, runs>>

\* parser.py lines 52-66: query_llm returns, or raises and line 68 catches;
\* cli.py lines 144-148: the command stops unless parsing_status is success
ParserLLMAnswers(ok) ==
    /\ pc = "parser_await_llm"
    /\ prev' = <<ParseResult(IF ok THEN "success" ELSE "error", prev[1].llm_queries)>>
    /\ pc' = IF ok THEN "idle" ELSE "cli_exit"
    /\ UNCHANGED <<fastq_data, input_data, report, llm_calls, llm_outcome, result, saved,
                   runs>>

\* cli.py lines 159-167: reporter.process with the parsed data and the options
CLIReport ==
    /\ prev # <<>>
    /\ prev[1].parsing_status = "success"
    /\ Process(input_data)

NextCLI ==
    \/ ParserProcess
    \/ \E ok \in BOOLEAN : ParserLLMAnswers(ok)
    \/ CLIReport
    \/ CreateReport
    \/ IdentifyFlags
    \/ FastAnalysis
    \/ StartAIAnalysis
    \/ \E ai_response \in Responses : LLMReturns(ai_response)
    \/ LLMRaises
    \/ LLMCancelled
    \/ GenerateRecommendations
    \/ GenerateChartData
    \/ CreateSections
    \/ \E io_ok \in BOOLEAN : SaveReport(io_ok)

SpecCLI == InitCLI /\ [][NextCLI]_vars

(***************************************************************************)
(* C25: with --fast no LLM query is made at any step of generate-report,   *)
(* by the parser agent or by the report agent, however many reads the file *)
(* holds.                                                                  *)
(***************************************************************************)
C25_FastSkipsEveryQuery ==
    input_data.fast_mode =>
        /\ llm_calls = 0
        /\ prev # <<>> => prev[1].llm_queries = 0

(***************************************************************************)
(* C26: every member of ReportFormat is a supported output format: with a  *)
(* directory that can be written, process on a valid FASTQData saves the   *)
(* report in the format asked for and returns status success.              *)
(***************************************************************************)
C26_EveryFormatSupported ==
    (pc = "done" /\ input_data.format \in ReportFormat
        /\ saved \notin {"not_tried", "failed"}) =>
        /\ saved = "written"
        /\ result.status = "success"

\* the number of recommendations of rep with priority high
HighPriorityCount(rep) ==
    Cardinality({i \in 1..Len(rep.recommendations) : rep.recommendations[i].priority = "high"})

(***************************************************************************)
(* C27: what process returns has one of two shapes: status success with a  *)
(* report, an output_path and a summary whose high_priority_issues is the  *)
(* number of recommendations of priority high and at most                  *)
(* total_recommendations; or status error with neither report nor          *)
(* output_path, also when only the saving failed.                          *)
(***************************************************************************)
C27_ResultShapes ==
    pc = "done" =>
        \/ /\ result.status = "success"
           /\ result.report # <<>>
           /\ result.output_path # <<>>
           /\ result.summary # <<>>
           /\ result.summary[1].high_priority_issues = HighPriorityCount(result.report[1])
           /\ result.summary[1].total_recommendations
                = Len(result.report[1].recommendations)
           /\ result.summary[1].high_priority_issues
                <= result.summary[1].total_recommendations
        \/ /\ result.status = "error"
           /\ result.report = <<>>
           /\ result.output_path = <<>>

\* the analysis was computed, with recommendations, and the saving failed: the
\* error dict carries no report
C27_Witness ==
    /\ pc = "done"
    /\ saved \in {"failed", "unsupported"}
    /\ report # <<>>
    /\ Len(report[1].recommendations) >= 2
    /\ result.status = "error"
    /\ result.report = <<>>

(***************************************************************************)
(* C28: assessment and low-quality flag agree in every report:             *)
(* low_quality_reads is set exactly when the assessment is poor or failed, *)
(* and so a Quality Filtering recommendation appears exactly when the      *)
(* assessment is poor or failed.                                           *)
(***************************************************************************)
C28_AssessmentAgreesWithFlag ==
    /\ FlagsIdentified =>
          (report[1].quality_flags.low_quality_reads
              <=> report[1].quality_assessment \in {"poor", "failed"})
    /\ RecommendationsGenerated =>
          (Has(report[1].recommendations, "Quality Filtering")
              <=> report[1].quality_assessment \in {"poor", "failed"})

\* on the edge, with recommendations made: an average of exactly 25 is fair,
\* unflagged, and has no Quality Filtering
C28_Witness ==
    /\ RecommendationsGenerated
    /\ report[1].metrics.average_quality = FromInt(25)
    /\ report[1].quality_assessment = "fair"
    /\ ~report[1].quality_flags.low_quality_reads
    /\ ~Has(report[1].recommendations, "Quality Filtering")

(***************************************************************************)
(* C29: the window of an emitted Length Filtering recommendation is well   *)
(* formed: min_length < max_length, and max_length - min_length is         *)
(* (max_read_length - min_read_length) - 20, which is at least 31.         *)
(***************************************************************************)
C29_LengthWindow ==
    RecommendationsGenerated =>
        \A i \in 1..Len(report[1].recommendations) :
            LET rec == report[1].recommendations[i]
                m   == report[1].metrics
            IN  rec.category = "Length Filtering" =>
                    /\ rec.parameters.min_length < rec.parameters.max_length
                    /\ rec.parameters.max_length - rec.parameters.min_length
                         = (m.max_read_length - m.min_read_length) - 20
                    /\ rec.parameters.max_length - rec.parameters.min_length >= 31

\* the narrowest window: a spread of 51 gives a window of 31
C29_Witness ==
    /\ RecommendationsGenerated
    /\ report[1].metrics.max_read_length - report[1].metrics.min_read_length = 51
    /\ \E i \in 1..Len(report[1].recommendations) :
          /\ report[1].recommendations[i].category = "Length Filtering"
          /\ report[1].recommendations[i].parameters.max_length
               - report[1].recommendations[i].parameters.min_length = 31

(***************************************************************************)
(* C30: a report holds at most four recommendations, of pairwise distinct  *)
(* categories, at most two of priority high, which only Quality Filtering  *)
(* and Contamination Check can be, and none of priority low.               *)
(***************************************************************************)
C30_RecommendationBounds ==
    RecommendationsGenerated =>
        LET recs == report[1].recommendations
        IN  /\ Len(recs) <= 4
            /\ \A i, j \in 1..Len(recs) : i # j => recs[i].category # recs[j].category
            /\ Cardinality({i \in 1..Len(recs) : recs[i].priority = "high"}) <= 2
            /\ \A i \in 1..Len(recs) :
                  /\ recs[i].priority # "low"
                  /\ recs[i].priority = "high" =>
                        recs[i].category \in {"Quality Filtering", "Contamination Check"}

\* all four rules fired, two of them with priority high
C30_Witness ==
    /\ RecommendationsGenerated
    /\ Len(report[1].recommendations) = 4
    /\ HighPriorityCount(report[1]) = 2

====
